---- MODULE Spec2Model ----
(***************************************************************************)
(* Crystal Collector (src/assets/js/app.js): the Game object, the three    *)
(* module-level counters, the gem buttons of #gem-display, the timer       *)
(* overlay and the browser's interval timers.                              *)
(*                                                                         *)
(* Every method of Game is an operator from a program state (a record of   *)
(* the variables below) to the program state it leaves behind; an action   *)
(* is one run-to-completion event of the page: the page load, a click on a *)
(* gem button, or one firing of an interval callback.                      *)
(*                                                                         *)
(* The text mirrors of the counters (.games__won, .games__lost,            *)
(* .game__total-score, .game__target-number) are written and never read by *)
(* the program; they are left out.                                         *)
(***************************************************************************)
EXTENDS Integers, Sequences, FiniteSets

VARIABLES
    numberOfWins,      \* let numberOfWins
    numberOfLosses,    \* let numberOfLosses
    currentScore,      \* let currentScore
    targetNumber,      \* Game.targetNumber
    restartID,         \* Game.restartID
    uniqueGemValues,   \* Game.uniqueGemValues
    gemButtons,        \* children of Game.elGemDisplay: <<[gem, value]>>
    clickHandlers,     \* number of delegated click handlers on elGemDisplay
    overlayDisplay,    \* inline display style of Game.elTimerOverlay
    messageClasses,    \* classes game-won / game-lost of Game.elTimerMessage
    messageText,       \* text of Game.elTimerMessage
    timeLeftText,      \* text of Game.elTimerTimeLeft: <<>> or <<number>>
    intervals,         \* the browser's active interval timers: {[id, seconds, fired]}
    timerCount,        \* the browser's timer handle counter
    roundsWon,         \* history: rounds whose ending click made score = target
    roundsLost,        \* history: rounds whose ending click made score > target
    callStack          \* <<>>, or the frame of the handler that is inside
                       \* generateGemNumbers: <<[bind, secondsLeft]>>

game == <<numberOfWins, numberOfLosses, currentScore, targetNumber, restartID,
          uniqueGemValues, gemButtons, clickHandlers, overlayDisplay,
          messageClasses, messageText, timeLeftText, intervals, timerCount>>

vars == <<game, roundsWon, roundsLost, callStack>>

-----------------------------------------------------------------------------
(* Bounds of the model *)

\* Math.random() returns one of NumSamples values k / RandomResolution,
\* spread evenly over [0, 1) from 0 to (RandomResolution - 1) / RandomResolution.
NumSamples == 4

RandomResolution == 1024

\* generateGemNumbers draws at most MaxDraws numbers: 4 accepted, the rest rejected.
MaxDraws == 4

\* Clicks are processed while numberOfWins + numberOfLosses < MaxTally.
MaxTally == 2

\* An interval callback runs on time or LateMs milliseconds late.
LateMs == 600

\* In StepSpec the target is drawn from the NumTargetSamples smallest samples.
NumTargetSamples == 1

-----------------------------------------------------------------------------
(* Program constants *)

gems == <<"emerald", "ruby", "sapphire", "topaz">>

restartSeconds == 5

\* setInterval(..., 1000)
IntervalMs == 1000

\* seconds * 1000 and (then - Date.now()) / 1000
MsPerSecond == 1000

-----------------------------------------------------------------------------
(* Numbers and strings *)

\* Mutant of getRandomNumber: the offset `+ start` is forgotten
getRandomNumber_noStart(start, end, sample) ==
    (sample * ((end - start) + 1)) \div RandomResolution

\* Math.floor(Math.random() * n + start) for Math.random() = sample / RandomResolution
getRandomNumber(start, end, sample) ==
    ((sample * ((end - start) + 1)) \div RandomResolution) + start

RandomSamples ==
    { (k * (RandomResolution - 1)) \div (NumSamples - 1) : k \in 0 .. (NumSamples - 1) }

\* String(n) for n >= 0, as its sequence of decimal digits
RECURSIVE ToString(_)
ToString(n) ==
    IF n < 10 THEN <<n>> ELSE Append(ToString(n \div 10), n % 10)

\* parseInt(str) of a string of decimal digits
RECURSIVE parseInt(_)
parseInt(str) ==
    IF Len(str) = 1 THEN str[1]
    ELSE 10 * parseInt(SubSeq(str, 1, Len(str) - 1)) + str[Len(str)]

\* Math.round(num / den), den > 0: the nearest integer, halves towards +infinity
MathRound(num, den) == ((2 * num) + den) \div (2 * den)

\* a % b of JavaScript, b > 0: the remainder has the sign of a
JsRem(a, b) == IF a >= 0 THEN a % b ELSE 0 - ((0 - a) % b)

includes(seq, x) == \E i \in 1 .. Len(seq) : seq[i] = x

-----------------------------------------------------------------------------
(* The program state as a record *)

Here ==
    [ numberOfWins    |-> numberOfWins,
      numberOfLosses  |-> numberOfLosses,
      currentScore    |-> currentScore,
      targetNumber    |-> targetNumber,
      restartID       |-> restartID,
      uniqueGemValues |-> uniqueGemValues,
      gemButtons      |-> gemButtons,
      clickHandlers   |-> clickHandlers,
      overlayDisplay  |-> overlayDisplay,
      messageClasses  |-> messageClasses,
      messageText     |-> messageText,
      timeLeftText    |-> timeLeftText,
      intervals       |-> intervals,
      timerCount      |-> timerCount ]

Is(s) ==
    /\ numberOfWins = s.numberOfWins
    /\ numberOfLosses = s.numberOfLosses
    /\ currentScore = s.currentScore
    /\ targetNumber = s.targetNumber
    /\ restartID = s.restartID
    /\ uniqueGemValues = s.uniqueGemValues
    /\ gemButtons = s.gemButtons
    /\ clickHandlers = s.clickHandlers
    /\ overlayDisplay = s.overlayDisplay
    /\ messageClasses = s.messageClasses
    /\ messageText = s.messageText
    /\ timeLeftText = s.timeLeftText
    /\ intervals = s.intervals
    /\ timerCount = s.timerCount

Becomes(s) ==
    /\ numberOfWins' = s.numberOfWins
    /\ numberOfLosses' = s.numberOfLosses
    /\ currentScore' = s.currentScore
    /\ targetNumber' = s.targetNumber
    /\ restartID' = s.restartID
    /\ uniqueGemValues' = s.uniqueGemValues
    /\ gemButtons' = s.gemButtons
    /\ clickHandlers' = s.clickHandlers
    /\ overlayDisplay' = s.overlayDisplay
    /\ messageClasses' = s.messageClasses
    /\ messageText' = s.messageText
    /\ timeLeftText' = s.timeLeftText
    /\ intervals' = s.intervals
    /\ timerCount' = s.timerCount

\* The state when the script has evaluated its declarations, before Game.start(true)
Loaded ==
    [ numberOfWins    |-> 0,
      numberOfLosses  |-> 0,
      currentScore    |-> 0,
      targetNumber    |-> 0,
      restartID       |-> 0,
      uniqueGemValues |-> <<>>,
      gemButtons      |-> <<>>,
      clickHandlers   |-> 0,
      overlayDisplay  |-> "unset",
      messageClasses  |-> {},
      messageText     |-> "",
      timeLeftText    |-> <<>>,
      intervals       |-> {},
      timerCount      |-> 0 ]

-----------------------------------------------------------------------------
(* The browser's timers *)

\* setInterval(callback, 1000) called with `seconds` in the callback's closure:
\* a new handle, and a timer that has not fired yet
setInterval(s, seconds) ==
    [s EXCEPT !.timerCount = s.timerCount + 1,
              !.intervals = s.intervals \cup
                  {[id |-> s.timerCount + 1, seconds |-> seconds, fired |-> 0]}]

\* clearInterval(id): a no-op when no active timer has this handle
clearInterval(s, id) ==
    [s EXCEPT !.intervals = {t \in s.intervals : t.id # id}]

-----------------------------------------------------------------------------
(* The methods of Game *)

\* Mutant of gemLoop: the test `! this.uniqueGemValues.includes(random)` is dropped
RECURSIVE gemLoop_noUniqueCheck(_, _)
gemLoop_noUniqueCheck(values, draws) ==
    IF Len(values) < 4 /\ draws # <<>>
    THEN gemLoop_noUniqueCheck(Append(values, getRandomNumber(1, 12, Head(draws))),
                               Tail(draws))
    ELSE values

\* Mutant of gemStep: the `!` of the includes test is missing
gemStep_missingNot(values, sample) ==
    LET random == getRandomNumber(1, 12, sample)
    IN  IF includes(values, random) THEN Append(values, random) ELSE values

\* The body of the while loop of generateGemNumbers for one Math.random()
gemStep(values, sample) ==
    LET random == getRandomNumber(1, 12, sample)
    IN  IF ~includes(values, random) THEN Append(values, random) ELSE values

\* The while loop of generateGemNumbers over the numbers Math.random() returns
RECURSIVE gemLoop(_, _)
gemLoop(values, draws) ==
    IF Len(values) < 4 /\ draws # <<>>
    THEN gemLoop(gemStep(values, Head(draws)), Tail(draws))
    ELSE values

\* The loop leaves after exactly these draws
terminates(values, draws) ==
    /\ Len(gemLoop(values, draws)) = 4
    /\ \/ draws = <<>>
       \/ Len(gemLoop(values, SubSeq(draws, 1, Len(draws) - 1))) < 4

generateGemNumbers(s, draws) ==
    [s EXCEPT !.uniqueGemValues = gemLoop(s.uniqueGemValues, draws)]

generateTargetNumber(sample) == getRandomNumber(19, 120, sample)

\* One pass of the for loop of startPlay: uniqueGemValues.shift() becomes the
\* data-gem-value attribute (a string) of a new button appended to the display;
\* shift() of an empty array is undefined and sets no attribute (<<>>).
RECURSIVE startPlayFrom(_, _)
startPlayFrom(s, i) ==
    IF i > Len(gems) THEN s
    ELSE LET shifted == IF s.uniqueGemValues = <<>> THEN <<>>
                        ELSE ToString(Head(s.uniqueGemValues))
             rest == IF s.uniqueGemValues = <<>> THEN <<>>
                     ELSE Tail(s.uniqueGemValues)
             button == [gem |-> gems[i], value |-> shifted]
         IN  startPlayFrom([s EXCEPT !.uniqueGemValues = rest,
                                     !.gemButtons = Append(s.gemButtons, button)],
                           i + 1)

startPlay(s) == startPlayFrom(s, 1)

bind(s) == [s EXCEPT !.clickHandlers = s.clickHandlers + 1]

\* Mutant of start: bind() is called on every start, not only on page load
start_alwaysBinds(s, bindArg, rnd) ==
    LET s1 == generateGemNumbers(s, rnd.gems)
        s2 == [s1 EXCEPT !.targetNumber = generateTargetNumber(rnd.target)]
    IN  bind(startPlay(s2))

\* rnd: what Math.random() returns during this call, [gems: draws, target: sample]
start(s, bindArg, rnd) ==
    LET s1 == generateGemNumbers(s, rnd.gems)
        s2 == [s1 EXCEPT !.targetNumber = generateTargetNumber(rnd.target)]
        s3 == startPlay(s2)
    IN  IF bindArg THEN bind(s3) ELSE s3

\* Mutant of resetGame: this.elGemDisplay.empty() is left out
resetGame_keepsButtons(s, rnd) ==
    LET s1 == [s EXCEPT !.uniqueGemValues = <<>>,
                        !.targetNumber = 0,
                        !.currentScore = 0,
                        !.messageText = "",
                        !.overlayDisplay = "none",
                        !.timeLeftText = <<>>,
                        !.messageClasses = {}]
    IN  start(s1, FALSE, rnd)

\* Mutant of resetGame: currentScore = 0 is left out
resetGame_keepsScore(s, rnd) ==
    LET s1 == [s EXCEPT !.gemButtons = <<>>,
                        !.uniqueGemValues = <<>>,
                        !.targetNumber = 0,
                        !.messageText = "",
                        !.overlayDisplay = "none",
                        !.timeLeftText = <<>>,
                        !.messageClasses = {}]
    IN  start(s1, FALSE, rnd)

\* Mutant of resetGame: removeClass('game-won game-lost') is left out
resetGame_keepsClasses(s, rnd) ==
    LET s1 == [s EXCEPT !.gemButtons = <<>>,
                        !.uniqueGemValues = <<>>,
                        !.targetNumber = 0,
                        !.currentScore = 0,
                        !.messageText = "",
                        !.overlayDisplay = "none",
                        !.timeLeftText = <<>>]
    IN  start(s1, FALSE, rnd)

\* Mutant of resetGame: the win and loss counters are reset with the score
resetGame_clearsTally(s, rnd) ==
    LET s1 == [s EXCEPT !.gemButtons = <<>>,
                        !.uniqueGemValues = <<>>,
                        !.targetNumber = 0,
                        !.currentScore = 0,
                        !.numberOfWins = 0,
                        !.numberOfLosses = 0,
                        !.messageText = "",
                        !.overlayDisplay = "none",
                        !.timeLeftText = <<>>,
                        !.messageClasses = {}]
    IN  start(s1, FALSE, rnd)

\* resetGame before its call of start
resetGameFields(s) ==
    [s EXCEPT !.gemButtons = <<>>,
              !.uniqueGemValues = <<>>,
              !.targetNumber = 0,
              !.currentScore = 0,
              !.messageText = "",
              !.overlayDisplay = "none",
              !.timeLeftText = <<>>,
              !.messageClasses = {}]

resetGame(s, rnd) == start(resetGameFields(s), FALSE, rnd)

displayTimeLeft(s, seconds) ==
    [s EXCEPT !.timeLeftText = <<JsRem(seconds, 60)>>]

\* Mutant of restartGame: clearInterval(this.restartID) is left out
restartGame_noClear(s, seconds) ==
    LET s1 == [s EXCEPT !.overlayDisplay = "flex"]
        s3 == displayTimeLeft(s1, seconds)
        s4 == setInterval(s3, seconds)
    IN  [s4 EXCEPT !.restartID = s4.timerCount]

\* restartGame up to and including setInterval; the callback is intervalCallback
restartGame(s, seconds) ==
    LET s1 == [s EXCEPT !.overlayDisplay = "flex"]
        s2 == clearInterval(s1, s1.restartID)
        s3 == displayTimeLeft(s2, seconds)
        s4 == setInterval(s3, seconds)
    IN  [s4 EXCEPT !.restartID = s4.timerCount]

\* Mutant of intervalCallback: clearInterval(this.restartID) is left out
intervalCallback_noStop(s, t, elapsed, rnd) ==
    LET secondsLeft == MathRound((t.seconds * MsPerSecond) - elapsed, MsPerSecond)
        s1 == IF secondsLeft < 0 THEN resetGame(s, rnd) ELSE s
    IN  displayTimeLeft(s1, secondsLeft)

\* The arrow function given to setInterval, run for timer t when Date.now() is
\* `elapsed` milliseconds after the `now` of its closure
intervalCallback(s, t, elapsed, rnd) ==
    LET secondsLeft == MathRound((t.seconds * MsPerSecond) - elapsed, MsPerSecond)
        s1 == IF secondsLeft < 0
              THEN resetGame(clearInterval(s, s.restartID), rnd)
              ELSE s
    IN  displayTimeLeft(s1, secondsLeft)

\* The two outcomes of playerClick
wins(s) ==
    [s EXCEPT !.numberOfWins = s.numberOfWins + 1,
              !.messageClasses = s.messageClasses \cup {"game-won"},
              !.messageText = "Awesome, You've Won!"]

loses(s) ==
    [s EXCEPT !.numberOfLosses = s.numberOfLosses + 1,
              !.messageClasses = s.messageClasses \cup {"game-lost"},
              !.messageText = "Sorry, you lose!"]

\* Mutant of playerClick: `>=` is tested first, so an exact hit counts as a loss
playerClick_lossFirst(s, el) ==
    LET gemValue == parseInt(s.gemButtons[el].value)
        s1 == [s EXCEPT !.currentScore = s.currentScore + gemValue]
    IN  IF s1.currentScore >= s1.targetNumber
        THEN restartGame(loses(s1), restartSeconds)
        ELSE IF s1.currentScore = s1.targetNumber
        THEN restartGame(wins(s1), restartSeconds)
        ELSE s1

\* Mutant of playerClick: the loss branch does not call restartGame
playerClick_lossWithoutCountdown(s, el) ==
    LET gemValue == parseInt(s.gemButtons[el].value)
        s1 == [s EXCEPT !.currentScore = s.currentScore + gemValue]
    IN  IF s1.currentScore = s1.targetNumber
        THEN restartGame(wins(s1), restartSeconds)
        ELSE IF s1.currentScore > s1.targetNumber
        THEN loses(s1)
        ELSE s1

\* Mutant of playerClick: a plain `else` in place of `else if (score > target)`
playerClick_plainElse(s, el) ==
    LET gemValue == parseInt(s.gemButtons[el].value)
        s1 == [s EXCEPT !.currentScore = s.currentScore + gemValue]
    IN  IF s1.currentScore = s1.targetNumber
        THEN restartGame(wins(s1), restartSeconds)
        ELSE restartGame(loses(s1), restartSeconds)

\* el: the index of the clicked button among the children of elGemDisplay
playerClick(s, el) ==
    LET gemValue == parseInt(s.gemButtons[el].value)
        s1 == [s EXCEPT !.currentScore = s.currentScore + gemValue]
    IN  IF s1.currentScore = s1.targetNumber
        THEN restartGame(wins(s1), restartSeconds)
        ELSE IF s1.currentScore > s1.targetNumber
        THEN restartGame(loses(s1), restartSeconds)
        ELSE s1

\* jQuery runs every handler delegated on elGemDisplay for one click
RECURSIVE dispatchClick(_, _, _)
dispatchClick(s, el, n) ==
    IF n = 0 THEN s ELSE dispatchClick(playerClick(s, el), el, n - 1)

-----------------------------------------------------------------------------
(* What Math.random() can return during one call of start *)

RECURSIVE SeqsUpTo(_, _)
SeqsUpTo(S, n) ==
    IF n = 0 THEN {<<>>}
    ELSE LET shorter == SeqsUpTo(S, n - 1)
         IN  shorter \cup {Append(q, x) : q \in {p \in shorter : Len(p) = n - 1}, x \in S}

StartRandoms ==
    [gems : {d \in SeqsUpTo(RandomSamples, MaxDraws) : terminates(<<>>, d)},
     target : RandomSamples]

NoRandom == [gems |-> <<>>, target |-> 0]

-----------------------------------------------------------------------------
(* The events of the page *)

\* Page load: Game.start(true)
Init ==
    /\ \E rnd \in StartRandoms : Is(start(Loaded, TRUE, rnd))
    /\ roundsWon = 0
    /\ roundsLost = 0
    /\ callStack = <<>>

\* A click on gem button el
Click(el) ==
    /\ numberOfWins + numberOfLosses < MaxTally
    /\ Becomes(dispatchClick(Here, el, clickHandlers))
    /\ roundsWon' = IF currentScore < targetNumber /\ currentScore' = targetNumber
                    THEN roundsWon + 1 ELSE roundsWon
    /\ roundsLost' = IF currentScore < targetNumber /\ currentScore' > targetNumber
                     THEN roundsLost + 1 ELSE roundsLost
    /\ UNCHANGED callStack

\* Timer t fires for the (t.fired + 1)-th time, `late` milliseconds late
Fire(t, late) ==
    LET elapsed == ((t.fired + 1) * IntervalMs) + late
        fired == [Here EXCEPT !.intervals =
                     (Here.intervals \ {t}) \cup {[t EXCEPT !.fired = t.fired + 1]}]
        restarts == MathRound((t.seconds * MsPerSecond) - elapsed, MsPerSecond) < 0
    IN  /\ IF restarts
           THEN \E rnd \in StartRandoms : Becomes(intervalCallback(fired, t, elapsed, rnd))
           ELSE Becomes(intervalCallback(fired, t, elapsed, NoRandom))
        /\ UNCHANGED <<roundsWon, roundsLost, callStack>>

Tick == \E t \in intervals : \E late \in {0, LateMs} : Fire(t, late)

PlayerClick == \E el \in 1 .. Len(gemButtons) : Click(el)

Next == PlayerClick \/ Tick

Spec == Init /\ [][Next]_vars

-----------------------------------------------------------------------------
(* The same page with generateGemNumbers run one iteration at a time.        *)
(* A handler that reaches the loop leaves its frame on callStack; no other   *)
(* event runs until the handler has returned. The counters, the score and    *)
(* the timer handles grow without bound when the player keeps clicking, so   *)
(* values above a threshold are identified: the program only compares the    *)
(* score with the target and a timer handle with the latest handle.          *)

StepTargetSamples ==
    {x \in RandomSamples :
        Cardinality({y \in RandomSamples : y < x}) < NumTargetSamples}

\* Above every target of StepSpec
FoldScoreAt ==
    1 + generateTargetNumber(CHOOSE x \in StepTargetSamples :
                                \A y \in StepTargetSamples : y <= x)

FoldNat(n, at) == IF n > at THEN at ELSE n

Fold(s) ==
    [s EXCEPT !.numberOfWins = FoldNat(@, MaxTally),
              !.numberOfLosses = FoldNat(@, MaxTally),
              !.currentScore = FoldNat(@, FoldScoreAt),
              !.timerCount = FoldNat(@, MaxTally),
              !.restartID = FoldNat(@, MaxTally),
              !.intervals = {[t EXCEPT !.id = FoldNat(@, MaxTally)] : t \in @}]

InGemLoop == callStack # <<>>

\* Page load: Game.start(true) has entered generateGemNumbers
StepInit ==
    /\ Is(Loaded)
    /\ roundsWon = 0
    /\ roundsLost = 0
    /\ callStack = <<[bind |-> TRUE, secondsLeft |-> <<>>]>>

\* One iteration of the while loop
Draw ==
    /\ InGemLoop
    /\ Len(uniqueGemValues) < 4
    /\ \E sample \in RandomSamples :
          uniqueGemValues' = gemStep(uniqueGemValues, sample)
    /\ UNCHANGED <<numberOfWins, numberOfLosses, currentScore, targetNumber,
                   restartID, gemButtons, clickHandlers, overlayDisplay,
                   messageClasses, messageText, timeLeftText, intervals,
                   timerCount, roundsWon, roundsLost, callStack>>

\* The loop condition fails: the rest of start runs, and then the rest of the
\* interval callback when that is the caller
Leave ==
    /\ InGemLoop
    /\ ~(Len(uniqueGemValues) < 4)
    /\ \E sample \in StepTargetSamples :
          LET frame == callStack[1]
              s == start(Here, frame.bind, [gems |-> <<>>, target |-> sample])
          IN  Becomes(IF frame.secondsLeft = <<>> THEN s
                      ELSE displayTimeLeft(s, frame.secondsLeft[1]))
    /\ callStack' = <<>>
    /\ UNCHANGED <<roundsWon, roundsLost>>

StepClick(el) ==
    /\ ~InGemLoop
    /\ Becomes(Fold(dispatchClick(Here, el, clickHandlers)))
    /\ roundsWon' = IF currentScore < targetNumber /\ currentScore' = targetNumber
                    THEN FoldNat(roundsWon + 1, MaxTally) ELSE roundsWon
    /\ roundsLost' = IF currentScore < targetNumber /\ currentScore' > targetNumber
                     THEN FoldNat(roundsLost + 1, MaxTally) ELSE roundsLost
    /\ UNCHANGED callStack

\* Timer t fires; when secondsLeft < 0 the callback clears the timer, runs
\* resetGame up to start and enters generateGemNumbers
StepFire(t, late) ==
    LET elapsed == ((t.fired + 1) * IntervalMs) + late
        fired == [Here EXCEPT !.intervals =
                     (Here.intervals \ {t}) \cup {[t EXCEPT !.fired = t.fired + 1]}]
        secondsLeft == MathRound((t.seconds * MsPerSecond) - elapsed, MsPerSecond)
    IN  /\ ~InGemLoop
        /\ IF secondsLeft < 0
           THEN /\ Becomes(resetGameFields(clearInterval(fired, fired.restartID)))
                /\ callStack' = <<[bind |-> FALSE, secondsLeft |-> <<secondsLeft>>]>>
           ELSE /\ Becomes(intervalCallback(fired, t, elapsed, NoRandom))
                /\ UNCHANGED callStack
        /\ UNCHANGED <<roundsWon, roundsLost>>

StepTick == \E t \in intervals : \E late \in {0, LateMs} : StepFire(t, late)

StepPlayerClick == \E el \in 1 .. Len(gemButtons) : StepClick(el)

StepNext == Draw \/ Leave \/ StepPlayerClick \/ StepTick

\* The browser keeps firing a scheduled interval, the script keeps running,
\* and Math.random() does not return already drawn values forever
StepSpec ==
    /\ StepInit
    /\ [][StepNext]_vars
    /\ WF_vars(StepTick)
    /\ WF_vars(Draw)
    /\ WF_vars(Leave)

-----------------------------------------------------------------------------
(* Derived notions *)

\* The outcome of the round, which the program does not store
RoundInProgress == currentScore < targetNumber

RoundEnded == currentScore >= targetNumber

CountdownActive == intervals # {}

\* A step in which an interval callback ran resetGame
RestartStep == overlayDisplay = "flex" /\ overlayDisplay' = "none"

\* restartGame ran in this step: a new timer, not yet fired, is the one restartID names
CountdownStarted ==
    /\ timerCount' = timerCount + 1
    /\ restartID' = timerCount'
    /\ \E t \in intervals' :
          /\ t.id = restartID'
          /\ t.fired = 0
          /\ t.seconds = restartSeconds
    /\ overlayDisplay' = "flex"
    /\ timeLeftText' = <<restartSeconds>>

GemValue(el) == parseInt(gemButtons[el].value)

\* An interval callback ran in this step and its timer is still scheduled
TimerTicked ==
    \E t \in intervals : [t EXCEPT !.fired = t.fired + 1] \in intervals'

\* The buttons the last call of startPlay appended to the display
CurrentRoundButtons ==
    ((Len(gemButtons) - Len(gems)) + 1) .. Len(gemButtons)

-----------------------------------------------------------------------------
(* Claims *)

\* C1: once a round has ended and until the next round starts, a gem click
\* leaves the score, the wins counter and the losses counter unchanged.
C1_ClickAfterEndIsNoOp ==
    [][(RoundEnded /\ PlayerClick)
         => UNCHANGED <<currentScore, numberOfWins, numberOfLosses>>]_vars

\* C2: each round increments exactly one counter, once: numberOfWins is the
\* number of rounds that ended with score = target and numberOfLosses the
\* number of rounds that ended with score > target.
C2_TallyCountsRounds ==
    /\ numberOfWins = roundsWon
    /\ numberOfLosses = roundsLost

\* C3: a click during a round in progress that makes the score equal to the
\* target adds exactly 1 to numberOfWins, leaves numberOfLosses alone and
\* starts the restart countdown.
C3_WinOnExactTarget ==
    [][\A el \in 1 .. Len(gemButtons) :
          (RoundInProgress /\ Click(el) /\ currentScore' = targetNumber)
            => /\ numberOfWins' = numberOfWins + 1
               /\ numberOfLosses' = numberOfLosses
               /\ CountdownStarted]_vars

C3_Witness ==
    /\ roundsWon >= 1
    /\ currentScore = targetNumber
    /\ CountdownActive

\* C4: a click during a round in progress that makes the score greater than
\* the target adds exactly 1 to numberOfLosses, leaves numberOfWins alone and
\* starts the restart countdown.
C4_LossOnOvershoot ==
    [][\A el \in 1 .. Len(gemButtons) :
          (RoundInProgress /\ Click(el) /\ currentScore' > targetNumber)
            => /\ numberOfLosses' = numberOfLosses + 1
               /\ numberOfWins' = numberOfWins
               /\ CountdownStarted]_vars

C4_Witness ==
    /\ roundsLost >= 1
    /\ currentScore > targetNumber
    /\ CountdownActive

\* C5: a click that leaves the score below the target keeps the round in
\* progress: the counters, the target and the gem buttons are unchanged, no
\* timer is started, and the buttons and their handler stay in place for
\* further clicks.
C5_BelowTargetContinues ==
    [][\A el \in 1 .. Len(gemButtons) :
          (Click(el) /\ currentScore' < targetNumber)
            => /\ UNCHANGED <<numberOfWins, numberOfLosses, targetNumber, gemButtons,
                              intervals, timerCount, restartID, overlayDisplay,
                              clickHandlers>>
               /\ intervals' = {}
               /\ gemButtons' # <<>>
               /\ clickHandlers' >= 1]_vars

C5_Witness ==
    /\ currentScore > 0
    /\ currentScore < targetNumber
    /\ ~CountdownActive

\* C6: every click changes the score by exactly the value of the clicked gem,
\* once, also after restarts (one click handler is registered, at page load
\* only), and the score never decreases within a round.
C6_ClickAddsGemValueOnce ==
    [][/\ \A el \in 1 .. Len(gemButtons) :
             Click(el) => currentScore' = currentScore + GemValue(el)
       /\ ~RestartStep => currentScore' >= currentScore
       /\ clickHandlers' = 1]_vars

C6_Witness ==
    /\ timerCount >= 1
    /\ ~CountdownActive
    /\ currentScore > 0

\* C7: in every round exactly 4 gem buttons exist, one per gem name, with
\* pairwise distinct integer values in 1..12.
C7_FourDistinctGems ==
    /\ Len(gemButtons) = 4
    /\ \A i \in 1 .. Len(gemButtons) :
          /\ i <= Len(gems) /\ gemButtons[i].gem = gems[i]
          /\ gemButtons[i].value # <<>>
          /\ GemValue(i) \in 1 .. 12
    /\ \A i, j \in 1 .. Len(gemButtons) :
          (gemButtons[i].value # <<>> /\ gemButtons[j].value # <<>> /\ i # j)
            => GemValue(i) # GemValue(j)

C7_Witness ==
    /\ timerCount >= 1
    /\ ~CountdownActive
    /\ C7_FourDistinctGems

\* C8: in every state in which a click or a timer tick can be processed the
\* target is in 19..120 (the 0 that resetGame writes is never seen).
C8_TargetInRange == targetNumber \in 19 .. 120

C8_Witness ==
    /\ timerCount >= 1
    /\ ~CountdownActive
    /\ targetNumber = 120

\* C9: a restart sets the score to 0 and installs a newly drawn target and 4
\* newly drawn gem values while leaving both counters as they were; no step
\* ever decreases a counter.
C9_RestartKeepsTally ==
    [][/\ RestartStep
            => /\ currentScore' = 0
               /\ UNCHANGED <<numberOfWins, numberOfLosses>>
               /\ \E rnd \in StartRandoms :
                     /\ targetNumber' = generateTargetNumber(rnd.target)
                     /\ Len(gemButtons') = 4
                     /\ \A i \in 1 .. 4 :
                           gemButtons'[i].value =
                               ToString(getRandomNumber(1, 12, rnd.gems[i]))
       /\ numberOfWins' >= numberOfWins
       /\ numberOfLosses' >= numberOfLosses]_vars

C9_Witness ==
    /\ timerCount >= 1
    /\ ~CountdownActive
    /\ currentScore = 0
    /\ numberOfWins + numberOfLosses >= 1

\* C10: at most one countdown interval timer is scheduled at any time, also
\* when restartGame runs while a countdown is active.
C10_AtMostOneTimer == Cardinality(intervals) <= 1

C10_Witness ==
    /\ CountdownActive
    /\ timerCount >= 2
    /\ numberOfWins + numberOfLosses > roundsWon + roundsLost

\* C11: the automatic restart happens only for a round that has ended, at a
\* tick whose remaining-seconds value is below zero and at no tick with a
\* value of zero or more; that tick stops the timer, so the same countdown
\* cannot reset the game again.
C11_RestartOnceBelowZero ==
    [][/\ RestartStep
            => /\ RoundEnded
               /\ CountdownActive
               /\ timeLeftText' # <<>> /\ timeLeftText'[1] < 0
               /\ intervals' = {}
               /\ RoundInProgress'
       /\ TimerTicked => timeLeftText'[1] >= 0]_vars

C11_Witness ==
    /\ timerCount >= 1
    /\ ~CountdownActive
    /\ timeLeftText # <<>>
    /\ timeLeftText[1] < 0

\* C13: every click adds the value of one of the 4 buttons startPlay created
\* for the current round; a restart leaves no button of the previous round.
C13_OnlyCurrentGemsScore ==
    [][/\ \A el \in 1 .. Len(gemButtons) :
             Click(el) => \E i \in CurrentRoundButtons :
                             currentScore' = currentScore + GemValue(i)
       /\ RestartStep => Len(gemButtons') = Len(gems)]_vars

C13_Witness ==
    /\ timerCount >= 1
    /\ ~CountdownActive
    /\ \E i \in CurrentRoundButtons : currentScore = GemValue(i)

\* C14: every value written to the timer display is in 0..restartSeconds; a
\* countdown starts with restartSeconds and each tick writes a value smaller
\* than the one before; nothing is written once the new round has started.
C14_DisplayedSeconds ==
    [][/\ timeLeftText' # <<>> => timeLeftText'[1] \in 0 .. restartSeconds
       /\ timerCount' # timerCount => timeLeftText' = <<restartSeconds>>
       /\ TimerTicked => timeLeftText'[1] < timeLeftText[1]
       /\ RestartStep => timeLeftText' = <<>>]_vars

\* C15: when a restart completes no countdown timer is scheduled, and a round
\* in progress is never reset.
C15_NoTimerAfterRestart ==
    [][/\ RestartStep => intervals' = {}
       /\ RoundInProgress => ~RestartStep]_vars

C15_Witness ==
    /\ timerCount >= 2
    /\ ~CountdownActive
    /\ RoundInProgress
    /\ overlayDisplay = "none"

\* C17: without a scheduled countdown timer 0 <= score < target; the score is
\* at or above the target only while a countdown is active.
C17_ScoreBelowTargetUnlessCountdown ==
    /\ ~CountdownActive => (0 <= currentScore /\ currentScore < targetNumber)
    /\ currentScore >= targetNumber => CountdownActive

C17_Witness ==
    /\ timerCount >= 1
    /\ ~CountdownActive
    /\ currentScore > 0
    /\ currentScore < targetNumber
    /\ numberOfWins >= 1

\* C18: after the first round end the overlay is shown exactly when a
\* countdown timer is scheduled and hidden exactly when a round is in
\* progress; while hidden the timer message has neither outcome class.
C18_OverlayFollowsCountdown ==
    timerCount >= 1
      => /\ overlayDisplay = "flex" <=> CountdownActive
         /\ overlayDisplay = "none" <=> RoundInProgress
         /\ overlayDisplay = "none" => messageClasses = {}

C18_Witness ==
    /\ timerCount >= 1
    /\ overlayDisplay = "none"
    /\ messageClasses = {}
    /\ numberOfLosses >= 1

\* C12: with timer ticks that keep firing, every state in which the round has
\* ended is eventually followed by a state with score 0 and a round in
\* progress, whatever the player clicks in the meantime.
C12_RestartEventually ==
    (~InGemLoop /\ RoundEnded) ~> (~InGemLoop /\ currentScore = 0 /\ RoundInProgress)

\* C16: generateGemNumbers is always entered with an empty uniqueGemValues,
\* and when the draws are fair its loop ends, with exactly 4 values.
C16_GemLoopTerminates ==
    /\ [][(~InGemLoop /\ InGemLoop') => uniqueGemValues' = <<>>]_vars
    /\ [][(InGemLoop /\ ~InGemLoop') => Len(uniqueGemValues) = 4]_vars
    /\ InGemLoop ~> (InGemLoop /\ Len(uniqueGemValues) = 4)

C16_Witness ==
    /\ InGemLoop
    /\ Len(uniqueGemValues) = 4
    /\ timerCount >= 1

====
